---- MODULE Spec2Model ----
(***************************************************************************)
(* Model of the secret-friend draw of the as-backend services:             *)
(* services/events.ts `draw` (the matching loop and its persistence) over  *)
(* the Event / EventPeople tables, and services/people.ts `updatePeople`.  *)
(***************************************************************************)
EXTENDS Integers, Sequences, FiniteSets, TLC

(* ------------------------------ bounds --------------------------------- *)

\* largest roster of the drawn event
MaxPeople == 4

\* concurrent callers of draw that the model tracks
Procs == {1, 2}

\* callers that run in the sequential specification
SeqProcs == {1}

(* ------------------------------ the store ------------------------------ *)

EventIds == {1, 2}

\* groups of event 1 (EventGroup rows with eventId = 1)
GroupsOfFirst == {1, 2, 3}

\* the one group of event 2 and the one participant of event 2
OtherGroup == 4

OtherId == MaxPeople + 1

\* column default of EventPeople.matched
EmptyMatched == << >>

\* the characters of the decimal digits 0..9
DigitChars == <<"0", "1", "2", "3", "4", "5", "6", "7", "8", "9">>

RECURSIVE DigitsReversed(_)
\* decimal digits of a number, least significant first
DigitsReversed(n) ==
    IF n < 10 THEN <<DigitChars[n + 1]>>
    ELSE <<DigitChars[(n % 10) + 1]>> \o DigitsReversed(n \div 10)

RECURSIVE Digits(_)
\* decimal digits of a number, most significant first (template-string formatting)
Digits(n) ==
    IF n < 10 THEN <<DigitChars[n + 1]>>
    ELSE Digits(n \div 10) \o <<DigitChars[(n % 10) + 1]>>

\* process.env.DEFAULT_TOKEN, the marker wrapped around the id
DefaultToken == <<"t", "k">>

\* utils/match encrypt: the recipient id wrapped in the token marker
encrypt(id) == DefaultToken \o Digits(id) \o DefaultToken

\* outcome of decoding a string that encrypt did not produce
DecodeError == -1

IsDigitChar(c) == \E d \in 1..10 : DigitChars[d] = c

DigitValue(c) == (CHOOSE d \in 1..10 : DigitChars[d] = c) - 1

RECURSIVE ParseInt(_)
\* value of a non-empty string of decimal digits
ParseInt(ds) ==
    IF Len(ds) = 0 THEN 0
    ELSE ParseInt(SubSeq(ds, 1, Len(ds) - 1)) * 10 + DigitValue(ds[Len(ds)])

\* the text between the two markers, when the string has that shape
Unwrapped(tok) == SubSeq(tok, Len(DefaultToken) + 1, Len(tok) - Len(DefaultToken))

WellFormed(tok) ==
    /\ Len(tok) > 2 * Len(DefaultToken)
    /\ SubSeq(tok, 1, Len(DefaultToken)) = DefaultToken
    /\ SubSeq(tok, Len(tok) - Len(DefaultToken) + 1, Len(tok)) = DefaultToken
    /\ \A k \in 1..Len(Unwrapped(tok)) : IsDigitChar(Unwrapped(tok)[k])

\* utils/match decrypt: strips the markers and parses the id
decrypt(tok) == IF WellFormed(tok) THEN ParseInt(Unwrapped(tok)) ELSE DecodeError

\* largest id put through the codec
MaxId == 120

VARIABLES
    events,           \* Event table: id -> [grouped, status]
    groups,           \* EventGroup table: id -> [eventId]
    people,           \* EventPeople table: id -> [eventId, groupId, matched]
    auto,             \* AUTO_INCREMENT counters of the three tables
    cp,               \* the createPerson call in flight
    lastUpdate,       \* the last updated event the events controller answered
    pc,               \* per caller: position inside draw
    eid,              \* per caller: the argument `id`
    event,            \* per caller: result of prisma.event.findFirst
    peopleList,       \* per caller: result of prisma.eventPeople.findMany
    sortedList,       \* per caller: list of {id, match}
    sortable,         \* per caller: ids that can still be matched
    attempts,         \* per caller
    maxAttempts,      \* per caller
    keepTrying,       \* per caller
    idx,              \* per caller: position of the for-in loop (1-based)
    sortableFiltered, \* per caller
    sortedIndex,      \* per caller: picked position in sortableFiltered (1-based)
    wi,               \* per caller: position of the step-4 loop (1-based)
    result,           \* per caller: value draw resolved to, or the error it rejected with
    before,           \* per caller: EventPeople table when draw was called
    writes,           \* per caller: updatePeople calls issued, in order
    codec             \* one use of the codec: [stage, x, token, out]

vars == << events, groups, people, auto, cp, lastUpdate, pc, eid, event, peopleList, sortedList, sortable,
           attempts, maxAttempts, keepTrying, idx, sortableFiltered,
           sortedIndex, wi, result, before, writes, codec >>

\* state that only the admin handlers change
adminVars == << groups, auto, cp, lastUpdate >>

local == << eid, event, peopleList, sortedList, sortable, attempts,
            maxAttempts, keepTrying, idx, sortableFiltered, sortedIndex, wi,
            result, before, writes >>

NoEvent == [found |-> FALSE, grouped |-> FALSE]

(* ------------------------------ helpers -------------------------------- *)

RECURSIVE SortedIds(_)
\* ids of a set in ascending (primary key) order
SortedIds(S) ==
    IF S = {} THEN << >>
    ELSE LET m == CHOOSE x \in S : \A y \in S : x <= y
         IN  <<m>> \o SortedIds(S \ {m})

\* prisma.eventPeople.findMany({ where: { eventId } })
FindManyAll(tbl, e) ==
    LET ids == SortedIds(DOMAIN tbl)
    IN  [k \in 1..Len(ids) |-> [id |-> ids[k], groupId |-> tbl[ids[k]].groupId]]

FindMany(tbl, e) ==
    LET ids == SortedIds({q \in DOMAIN tbl : tbl[q].eventId = e})
    IN  [k \in 1..Len(ids) |-> [id |-> ids[k], groupId |-> tbl[ids[k]].groupId]]

\* peopleList.find(item => item.id === sortableItem)?.groupId
GroupOf(pl, x) ==
    LET hits == {k \in 1..Len(pl) : pl[k].id = x}
    IN  IF hits = {} THEN 0
        ELSE pl[CHOOSE k \in hits : \A j \in hits : k <= j].groupId

\* lines 148-156: candidates of participant pl[i]
FilterNone(pl, pool, i, grouped) == pool

Filter(pl, pool, i, grouped) ==
    IF grouped
    THEN LET Keep(x) == pl[i].groupId # GroupOf(pl, x) IN SelectSeq(pool, Keep)
    ELSE pool

\* line 179: sortable.filter(item => item !== picked)
RemoveKeep(pool, picked) == pool

Remove(pool, picked) ==
    LET Keep(x) == x # picked IN SelectSeq(pool, Keep)

\* line 168: the resample loop's condition
IsSelfNever(pl, i, filt, k) == FALSE

IsSelf(pl, i, filt, k) == filt[k] = pl[i].id

\* line 188: the test that guards persistence
Step4TestAlways(a, m) == TRUE

Step4TestLeq(a, m) == a <= m

Step4Test(a, m) == a < m

\* prisma.eventPeople.updateMany({ where: { id, eventId }, data: { matched } })
UpdateManyOfEvent(tbl, pid, e, tok) ==
    [q \in DOMAIN tbl |->
        IF tbl[q].eventId = e
        THEN [tbl[q] EXCEPT !.matched = tok]
        ELSE tbl[q]]

UpdateMany(tbl, pid, e, tok) ==
    [q \in DOMAIN tbl |->
        IF q = pid /\ tbl[q].eventId = e
        THEN [tbl[q] EXCEPT !.matched = tok]
        ELSE tbl[q]]

(* ------------------------------ initial states ------------------------- *)

\* matched column left by an earlier draw of a roster of n (a cyclic shift)
PriorMatched(n, k, drawn) ==
    IF drawn /\ n >= 2 THEN encrypt((k % n) + 1) ELSE EmptyMatched

\* EventPeople rows: ids 1..n in event 1, and one participant in event 2
Rows(n, g, drawn) ==
    [q \in (1..n) \cup {OtherId} |->
        IF q = OtherId
        THEN [eventId |-> 2, groupId |-> OtherGroup, matched |-> EmptyMatched]
        ELSE [eventId |-> 1, groupId |-> g[q], matched |-> PriorMatched(n, q, drawn)]]

\* EventGroup rows that go with Rows: the groups of the events that exist
GroupRows(evs) ==
    [g \in {x \in GroupsOfFirst \cup {OtherGroup} :
                (IF x = OtherGroup THEN 2 ELSE 1) \in evs} |->
        [eventId |-> IF g = OtherGroup THEN 2 ELSE 1]]

\* no createPerson call is in flight
NoCreate == [stage |-> "idle", eventId |-> 0, groupId |-> 0]

\* the events controller has answered no update
NoUpdate == [id |-> 0, ok |-> FALSE, status |-> FALSE]

\* the admin state that goes with a store whose tables are filled up to these ids
AdminIdle(lastEvent, lastGroup, lastPerson) ==
    /\ auto = [event |-> lastEvent + 1, group |-> lastGroup + 1, person |-> lastPerson + 1]
    /\ cp = NoCreate
    /\ lastUpdate = NoUpdate

\* group ids are handed out in order of first use (ids only matter up to equality)
InOrderOfUse(n, g) ==
    \A k \in 1..n : \/ g[k] = 1
                     \/ \E j \in 1..(k - 1) : g[j] = g[k] - 1

\* the codec is not in use
CodecIdle == [stage |-> "idle", x |-> 0, token |-> EmptyMatched, out |-> 0]

\* every caller of draw is idle
CallersIdle ==
    /\ pc = [p \in Procs |-> "idle"]
    /\ eid = [p \in Procs |-> 0]
    /\ event = [p \in Procs |-> NoEvent]
    /\ peopleList = [p \in Procs |-> << >>]
    /\ sortedList = [p \in Procs |-> << >>]
    /\ sortable = [p \in Procs |-> << >>]
    /\ attempts = [p \in Procs |-> 0]
    /\ maxAttempts = [p \in Procs |-> 0]
    /\ keepTrying = [p \in Procs |-> TRUE]
    /\ idx = [p \in Procs |-> 0]
    /\ sortableFiltered = [p \in Procs |-> << >>]
    /\ sortedIndex = [p \in Procs |-> 0]
    /\ wi = [p \in Procs |-> 0]
    /\ result = [p \in Procs |-> "none"]
    /\ before = [p \in Procs |-> people]
    /\ writes = [p \in Procs |-> << >>]

Init ==
    /\ \/ /\ events = [e \in {2} |-> [grouped |-> FALSE, status |-> FALSE]]
          /\ people = Rows(0, << >>, FALSE)
       \/ \E gr \in BOOLEAN, n \in 0..MaxPeople, drawn \in BOOLEAN :
          \E g \in [1..n -> GroupsOfFirst] :
             /\ drawn => n >= 2
             /\ InOrderOfUse(n, g)
             /\ events = [e \in EventIds |->
                            [grouped |-> IF e = 1 THEN gr ELSE FALSE, status |-> FALSE]]
             /\ people = Rows(n, g, drawn)
    /\ groups = GroupRows(DOMAIN events)
    /\ AdminIdle(2, OtherGroup, OtherId)
    /\ CallersIdle
    /\ codec = CodecIdle

(* ------------------------------ draw ----------------------------------- *)

\* line 110: a caller invokes draw(id)
Call(p) ==
    /\ pc[p] = "idle"
    /\ \E id \in EventIds : eid' = [eid EXCEPT ![p] = id]
    /\ before' = [before EXCEPT ![p] = people]
    /\ pc' = [pc EXCEPT ![p] = "findEvent"]
    /\ UNCHANGED << events, people, event, peopleList, sortedList, sortable,
                    attempts, maxAttempts, keepTrying, idx, sortableFiltered,
                    sortedIndex, wi, result, writes >>

\* lines 113-118: await prisma.event.findFirst; a store error rejects draw
FindEvent(p) ==
    /\ pc[p] = "findEvent"
    /\ \E storeOk \in BOOLEAN :
          IF ~storeOk
          THEN /\ pc' = [pc EXCEPT ![p] = "raised"]
               /\ result' = [result EXCEPT ![p] = "StoreError"]
               /\ UNCHANGED event
          ELSE IF eid[p] \in DOMAIN events
          THEN /\ event' = [event EXCEPT ![p] =
                               [found |-> TRUE, grouped |-> events[eid[p]].grouped]]
               /\ pc' = [pc EXCEPT ![p] = "findPeople"]
               /\ UNCHANGED result
          ELSE /\ event' = [event EXCEPT ![p] = NoEvent]
               /\ pc' = [pc EXCEPT ![p] = "done"]
               /\ result' = [result EXCEPT ![p] = "false"]
    /\ UNCHANGED << events, people, eid, peopleList, sortedList, sortable,
                    attempts, maxAttempts, keepTrying, idx, sortableFiltered,
                    sortedIndex, wi, before, writes >>

\* lines 121-134: await prisma.eventPeople.findMany, then the set-up of the loop
FindPeopleBudget(p) ==
    /\ pc[p] = "findPeople"
    /\ \E storeOk \in BOOLEAN :
          IF ~storeOk
          THEN /\ pc' = [pc EXCEPT ![p] = "raised"]
               /\ result' = [result EXCEPT ![p] = "StoreError"]
               /\ UNCHANGED << peopleList, sortedList, sortable, attempts,
                               maxAttempts, keepTrying >>
          ELSE /\ peopleList' = [peopleList EXCEPT ![p] = FindMany(people, eid[p])]
               /\ sortedList' = [sortedList EXCEPT ![p] = << >>]
               /\ sortable' = [sortable EXCEPT ![p] = << >>]
               /\ attempts' = [attempts EXCEPT ![p] = 0]
               /\ maxAttempts' = [maxAttempts EXCEPT ![p] =
                                     Len(FindMany(people, eid[p])) + 1]
               /\ keepTrying' = [keepTrying EXCEPT ![p] = TRUE]
               /\ pc' = [pc EXCEPT ![p] = "while"]
               /\ UNCHANGED result
    /\ UNCHANGED << events, people, eid, event, idx, sortableFiltered,
                    sortedIndex, wi, before, writes >>

FindPeople(p) ==
    /\ pc[p] = "findPeople"
    /\ \E storeOk \in BOOLEAN :
          IF ~storeOk
          THEN /\ pc' = [pc EXCEPT ![p] = "raised"]
               /\ result' = [result EXCEPT ![p] = "StoreError"]
               /\ UNCHANGED << peopleList, sortedList, sortable, attempts,
                               maxAttempts, keepTrying >>
          ELSE /\ peopleList' = [peopleList EXCEPT ![p] = FindMany(people, eid[p])]
               /\ sortedList' = [sortedList EXCEPT ![p] = << >>]
               /\ sortable' = [sortable EXCEPT ![p] = << >>]
               /\ attempts' = [attempts EXCEPT ![p] = 0]
               /\ maxAttempts' = [maxAttempts EXCEPT ![p] = Len(FindMany(people, eid[p]))]
               /\ keepTrying' = [keepTrying EXCEPT ![p] = TRUE]
               /\ pc' = [pc EXCEPT ![p] = "while"]
               /\ UNCHANGED result
    /\ UNCHANGED << events, people, eid, event, idx, sortableFiltered,
                    sortedIndex, wi, before, writes >>

\* lines 137-143 and 187-188: the while test; a new attempt, or on to step 4
WhileTestLive(p) ==
    /\ pc[p] = "while"
    /\ IF keepTrying[p] /\ attempts[p] < maxAttempts[p]
       THEN /\ keepTrying' = [keepTrying EXCEPT ![p] = FALSE]
            /\ attempts' = [attempts EXCEPT ![p] = attempts[p] + 1]
            /\ sortedList' = [sortedList EXCEPT ![p] = << >>]
            /\ sortable' = [sortable EXCEPT ![p] =
                               [k \in 1..Len(FindMany(people, eid[p])) |->
                                    FindMany(people, eid[p])[k].id]]
            /\ idx' = [idx EXCEPT ![p] = 1]
            /\ pc' = [pc EXCEPT ![p] = "for"]
            /\ UNCHANGED << wi, result >>
       ELSE IF Step4Test(attempts[p], maxAttempts[p])
       THEN /\ wi' = [wi EXCEPT ![p] = 1]
            /\ pc' = [pc EXCEPT ![p] = "write"]
            /\ UNCHANGED << keepTrying, attempts, sortedList, sortable, idx, result >>
       ELSE /\ pc' = [pc EXCEPT ![p] = "done"]
            /\ result' = [result EXCEPT ![p] = "false"]
            /\ UNCHANGED << keepTrying, attempts, sortedList, sortable, idx, wi >>
    /\ UNCHANGED << events, people, eid, event, peopleList, maxAttempts,
                    sortableFiltered, sortedIndex, before, writes >>

WhileTest(p) ==
    /\ pc[p] = "while"
    /\ IF keepTrying[p] /\ attempts[p] < maxAttempts[p]
       THEN /\ keepTrying' = [keepTrying EXCEPT ![p] = FALSE]
            /\ attempts' = [attempts EXCEPT ![p] = attempts[p] + 1]
            /\ sortedList' = [sortedList EXCEPT ![p] = << >>]
            /\ sortable' = [sortable EXCEPT ![p] =
                               [k \in 1..Len(peopleList[p]) |-> peopleList[p][k].id]]
            /\ idx' = [idx EXCEPT ![p] = 1]
            /\ pc' = [pc EXCEPT ![p] = "for"]
            /\ UNCHANGED << wi, result >>
       ELSE IF Step4Test(attempts[p], maxAttempts[p])
       THEN /\ wi' = [wi EXCEPT ![p] = 1]
            /\ pc' = [pc EXCEPT ![p] = "write"]
            /\ UNCHANGED << keepTrying, attempts, sortedList, sortable, idx, result >>
       ELSE /\ pc' = [pc EXCEPT ![p] = "done"]
            /\ result' = [result EXCEPT ![p] = "false"]
            /\ UNCHANGED << keepTrying, attempts, sortedList, sortable, idx, wi >>
    /\ UNCHANGED << events, people, eid, event, peopleList, maxAttempts,
                    sortableFiltered, sortedIndex, before, writes >>

\* line 145: the for-in loop has run through the roster
ForEnd(p) ==
    /\ pc[p] = "for"
    /\ idx[p] > Len(peopleList[p])
    /\ pc' = [pc EXCEPT ![p] = "while"]
    /\ UNCHANGED << events, people, local >>

\* lines 159-160: the guard; peopleList[1] is the SECOND participant, and
\* reading .id of a missing element throws a TypeError
GuardThrows(pl, filt) == Len(filt) = 1 /\ Len(pl) < 2

NoValidMatchOwn(pl, i, filt) ==
    Len(filt) = 0 \/ (Len(filt) = 1 /\ pl[i].id = filt[1])

NoValidMatch(pl, i, filt) ==
    Len(filt) = 0 \/ (Len(filt) = 1 /\ pl[2].id = filt[1])

\* lines 145-165: one participant: filter, guard, first random pick
ForStep(p) ==
    /\ pc[p] = "for"
    /\ idx[p] <= Len(peopleList[p])
    /\ LET filt == Filter(peopleList[p], sortable[p], idx[p], event[p].grouped)
       IN  /\ sortableFiltered' = [sortableFiltered EXCEPT ![p] = filt]
           /\ IF GuardThrows(peopleList[p], filt)
              THEN /\ pc' = [pc EXCEPT ![p] = "raised"]
                   /\ result' = [result EXCEPT ![p] = "TypeError"]
                   /\ UNCHANGED << keepTrying, idx, sortedIndex >>
              ELSE IF NoValidMatch(peopleList[p], idx[p], filt)
              THEN /\ keepTrying' = [keepTrying EXCEPT ![p] = TRUE]
                   /\ idx' = [idx EXCEPT ![p] = idx[p] + 1]
                   /\ UNCHANGED << pc, result, sortedIndex >>
              ELSE /\ \E k \in 1..Len(filt) :
                         sortedIndex' = [sortedIndex EXCEPT ![p] = k]
                   /\ pc' = [pc EXCEPT ![p] = "picked"]
                   /\ UNCHANGED << keepTrying, idx, result >>
    /\ UNCHANGED << events, people, eid, event, peopleList, sortedList, sortable,
                    attempts, maxAttempts, wi, before, writes >>

\* lines 168-170: the pick is the participant itself, pick again
Resample(p) ==
    /\ pc[p] = "picked"
    /\ IsSelf(peopleList[p], idx[p], sortableFiltered[p], sortedIndex[p])
    /\ \E k \in 1..Len(sortableFiltered[p]) :
          sortedIndex' = [sortedIndex EXCEPT ![p] = k]
    /\ UNCHANGED << events, people, pc, eid, event, peopleList, sortedList,
                    sortable, attempts, maxAttempts, keepTrying, idx,
                    sortableFiltered, wi, result, before, writes >>

\* lines 173-179: record the pair and take the pick out of the pool
RecordMatch(p) ==
    /\ pc[p] = "picked"
    /\ ~IsSelf(peopleList[p], idx[p], sortableFiltered[p], sortedIndex[p])
    /\ sortedList' = [sortedList EXCEPT ![p] =
           Append(sortedList[p],
                  [id |-> peopleList[p][idx[p]].id,
                   match |-> sortableFiltered[p][sortedIndex[p]]])]
    /\ sortable' = [sortable EXCEPT ![p] =
           Remove(sortable[p], sortableFiltered[p][sortedIndex[p]])]
    /\ idx' = [idx EXCEPT ![p] = idx[p] + 1]
    /\ pc' = [pc EXCEPT ![p] = "for"]
    /\ UNCHANGED << events, people, eid, event, peopleList, attempts,
                    maxAttempts, keepTrying, sortableFiltered, sortedIndex, wi,
                    result, before, writes >>

\* people.updatePeople (services/people.ts): updateMany inside try/catch; a
\* store error is swallowed into the return value false
updatePeopleOnce(tbl, pid, e, tok, storeOk) ==
    IF storeOk /\ pid \in DOMAIN tbl /\ tbl[pid].matched = EmptyMatched
    THEN UpdateMany(tbl, pid, e, tok)
    ELSE tbl

updatePeople(tbl, pid, e, tok, storeOk) ==
    IF storeOk THEN UpdateMany(tbl, pid, e, tok) ELSE tbl

\* lines 191-196: one awaited updatePeople per entry; its result is ignored
WriteAbort(p) ==
    /\ pc[p] = "write"
    /\ wi[p] <= Len(sortedList[p])
    /\ \E storeOk \in BOOLEAN :
          /\ people' = updatePeople(people, sortedList[p][wi[p]].id, eid[p],
                                    encrypt(sortedList[p][wi[p]].match), storeOk)
          /\ writes' = [writes EXCEPT ![p] = Append(writes[p],
                 [id |-> sortedList[p][wi[p]].id, eventId |-> eid[p],
                  matched |-> encrypt(sortedList[p][wi[p]].match), ok |-> storeOk])]
          /\ IF storeOk
             THEN /\ wi' = [wi EXCEPT ![p] = wi[p] + 1]
                  /\ UNCHANGED << pc, result >>
             ELSE /\ pc' = [pc EXCEPT ![p] = "done"]
                  /\ result' = [result EXCEPT ![p] = "false"]
                  /\ UNCHANGED wi
    /\ UNCHANGED << events, eid, event, peopleList, sortedList, sortable,
                    attempts, maxAttempts, keepTrying, idx, sortableFiltered,
                    sortedIndex, before >>

Write(p) ==
    /\ pc[p] = "write"
    /\ wi[p] <= Len(sortedList[p])
    /\ \E storeOk \in BOOLEAN :
          /\ people' = updatePeople(people, sortedList[p][wi[p]].id, eid[p],
                                    encrypt(sortedList[p][wi[p]].match), storeOk)
          /\ writes' = [writes EXCEPT ![p] = Append(writes[p],
                 [id |-> sortedList[p][wi[p]].id, eventId |-> eid[p],
                  matched |-> encrypt(sortedList[p][wi[p]].match), ok |-> storeOk])]
    /\ wi' = [wi EXCEPT ![p] = wi[p] + 1]
    /\ UNCHANGED << events, pc, eid, event, peopleList, sortedList, sortable,
                    attempts, maxAttempts, keepTrying, idx, sortableFiltered,
                    sortedIndex, result, before >>

\* line 198: all writes issued
ReturnTrueEarly(p) ==
    /\ pc[p] = "write"
    /\ wi[p] > 1 \/ wi[p] > Len(sortedList[p])
    /\ pc' = [pc EXCEPT ![p] = "done"]
    /\ result' = [result EXCEPT ![p] = "true"]
    /\ UNCHANGED << events, people, eid, event, peopleList, sortedList, sortable,
                    attempts, maxAttempts, keepTrying, idx, sortableFiltered,
                    sortedIndex, wi, before, writes >>

ReturnTrue(p) ==
    /\ pc[p] = "write"
    /\ wi[p] > Len(sortedList[p])
    /\ pc' = [pc EXCEPT ![p] = "done"]
    /\ result' = [result EXCEPT ![p] = "true"]
    /\ UNCHANGED << events, people, eid, event, peopleList, sortedList, sortable,
                    attempts, maxAttempts, keepTrying, idx, sortableFiltered,
                    sortedIndex, wi, before, writes >>

Step(p) ==
    \/ Call(p)
    \/ FindEvent(p)
    \/ FindPeople(p)
    \/ WhileTest(p)
    \/ ForEnd(p)
    \/ ForStep(p)
    \/ Resample(p)
    \/ RecordMatch(p)
    \/ Write(p)
    \/ ReturnTrue(p)

Next == \E p \in SeqProcs : Step(p) /\ UNCHANGED << codec, adminVars >>

Spec == Init /\ [][Next]_vars

(* ------------------------------ properties ----------------------------- *)

N(p) == Len(peopleList[p])

RosterIds(p) == {peopleList[p][k].id : k \in 1..N(p)}

FromIds(p) == {sortedList[p][k].id : k \in 1..Len(sortedList[p])}

ToIds(p) == {sortedList[p][k].match : k \in 1..Len(sortedList[p])}

Pairs(p) == {<<sortedList[p][k].id, sortedList[p][k].match>> : k \in 1..Len(sortedList[p])}

ReturnedTrue(p) == pc[p] = "done" /\ result[p] = "true"

ReturnedFalse(p) == pc[p] = "done" /\ result[p] = "false"

\* the resample loop of lines 168-170 can never leave: every candidate is the participant itself
Spinning(p) ==
    /\ pc[p] = "picked"
    /\ \A k \in 1..Len(sortableFiltered[p]) :
          IsSelf(peopleList[p], idx[p], sortableFiltered[p], k)

\* the list handed to the store is sortedList: one updatePeople per entry, in order
PersistedIsSortedList(p) ==
    /\ Len(writes[p]) = Len(sortedList[p])
    /\ \A k \in 1..Len(writes[p]) :
          /\ writes[p][k].id = sortedList[p][k].id
          /\ writes[p][k].eventId = eid[p]
          /\ writes[p][k].matched = encrypt(sortedList[p][k].match)
          /\ writes[p][k].ok => people[writes[p][k].id].matched = writes[p][k].matched

AllOneGroup(p) ==
    \A j, k \in 1..N(p) : peopleList[p][j].groupId = peopleList[p][k].groupId

\* the roster [{1,A},{2,A},{3,B},{4,B}] drawn with group exclusion
Scenario(p) ==
    /\ N(p) = 4
    /\ \A k \in 1..4 : peopleList[p][k].id = k
    /\ peopleList[p][1].groupId = peopleList[p][2].groupId
    /\ peopleList[p][3].groupId = peopleList[p][4].groupId
    /\ peopleList[p][1].groupId # peopleList[p][3].groupId
    /\ event[p].grouped

\* C1: with group exclusion off and a roster of N >= 2, a draw that returns
\* true persisted exactly N pairings, whose from-ids and to-ids are each the
\* roster's id set, and none pairs a participant with itself.
C1_Bijection ==
    \A p \in Procs :
        (ReturnedTrue(p) /\ ~event[p].grouped /\ N(p) >= 2) =>
            /\ Len(sortedList[p]) = N(p)
            /\ PersistedIsSortedList(p)
            /\ FromIds(p) = RosterIds(p)
            /\ ToIds(p) = RosterIds(p)
            /\ \A k \in 1..Len(sortedList[p]) : sortedList[p][k].id # sortedList[p][k].match

C1_Witness ==
    \E p \in Procs : ReturnedTrue(p) /\ ~event[p].grouped /\ N(p) >= 3

\* C2: with group exclusion on, a draw that returns true persisted no
\* pairing whose two participants have the same groupId.
C2_GroupExclusion ==
    \A p \in Procs :
        (ReturnedTrue(p) /\ event[p].grouped) =>
            /\ PersistedIsSortedList(p)
            /\ \A k \in 1..Len(sortedList[p]) :
                  GroupOf(peopleList[p], sortedList[p][k].id)
                      # GroupOf(peopleList[p], sortedList[p][k].match)

C2_Witness ==
    \E p \in Procs : ReturnedTrue(p) /\ event[p].grouped /\ Len(sortedList[p]) >= 3

\* C3: for a roster of N >= 2, draw never raises and never reaches a
\* resample loop that cannot exit (it always goes on to return true or false).
C3_NeverHangsNorRaises ==
    \A p \in Procs :
        N(p) >= 2 => (pc[p] # "raised" /\ ~Spinning(p))

\* the roster was read from the store
RosterFetched(p) ==
    \/ pc[p] \in {"while", "for", "picked", "write"}
    \/ pc[p] \in {"done", "raised"} /\ event[p].found /\ result[p] # "StoreError"

\* C4: for a roster of N <= 1, draw does not raise, and ends returning false
\* with no participant write.
C4_SmallRosterFails ==
    \A p \in Procs :
        (RosterFetched(p) /\ N(p) <= 1) =>
            /\ pc[p] \notin {"raised", "write"}
            /\ ~Spinning(p)
            /\ pc[p] = "done" => (result[p] = "false" /\ writes[p] = << >>)

\* C5: a roster of N >= 1 that shares one groupId, drawn with group exclusion,
\* makes at most N attempts, never picks, raises or writes, and returns false
\* with the store as it was.
C5_OneGroupFails ==
    \A p \in Procs :
        (RosterFetched(p) /\ N(p) >= 1 /\ AllOneGroup(p) /\ event[p].grouped) =>
            /\ attempts[p] <= N(p)
            /\ pc[p] \notin {"raised", "picked", "write"}
            /\ pc[p] = "done" =>
                  (result[p] = "false" /\ writes[p] = << >> /\ people = before[p])

C5_Witness ==
    \E p \in Procs :
        /\ ReturnedFalse(p) /\ N(p) >= 2 /\ AllOneGroup(p) /\ event[p].grouped
        /\ attempts[p] = N(p)

\* C6: the scenario roster drawn with group exclusion always ends with
\* success: 4 pairings, each to a participant of another group.
C6_ScenarioSucceeds ==
    \A p \in Procs :
        Scenario(p) =>
            /\ pc[p] # "raised" /\ ~Spinning(p)
            /\ pc[p] = "done" =>
                  /\ result[p] = "true"
                  /\ Len(sortedList[p]) = 4
                  /\ \A k \in 1..Len(sortedList[p]) :
                        GroupOf(peopleList[p], sortedList[p][k].id)
                            # GroupOf(peopleList[p], sortedList[p][k].match)

ExampleMatchings ==
    { << [id |-> 1, match |-> 3], [id |-> 2, match |-> 4],
         [id |-> 3, match |-> 1], [id |-> 4, match |-> 2] >>,
      << [id |-> 1, match |-> 4], [id |-> 2, match |-> 3],
         [id |-> 3, match |-> 2], [id |-> 4, match |-> 1] >> }

\* C7: each of the two example matchings of the scenario roster can come out
\* of draw: the random picks are the only freedom, so an attempt whose first
\* three picks are those of the example must end with the example's fourth
\* pairing and without a failure mark.
C7_ExamplesPossible ==
    \A p \in Procs, M \in ExampleMatchings :
        ( /\ Scenario(p)
          /\ pc[p] = "for" /\ idx[p] > N(p)
          /\ Len(sortedList[p]) >= 3
          /\ SubSeq(sortedList[p], 1, 3) = SubSeq(M, 1, 3) )
        => (sortedList[p] = M /\ ~keepTrying[p])

\* C8: the roster of ids 1 and 2 drawn without group exclusion never raises
\* or hangs, succeeds in its first attempt and persists exactly {1->2, 2->1}.
C8_TwoPeople ==
    \A p \in Procs :
        (N(p) = 2 /\ RosterIds(p) = {1, 2} /\ ~event[p].grouped) =>
            /\ pc[p] # "raised" /\ ~Spinning(p)
            /\ attempts[p] <= 1
            /\ pc[p] = "done" =>
                  /\ result[p] = "true"
                  /\ Pairs(p) = {<<1, 2>>, <<2, 1>>}
                  /\ PersistedIsSortedList(p)

C8_Witness ==
    \E p \in Procs :
        /\ ReturnedTrue(p) /\ N(p) = 2 /\ ~event[p].grouped
        /\ \A k \in 1..Len(writes[p]) : writes[p][k].ok

\* C9: a draw that read its roster and returned false issued no write, and
\* every participant's matched field is what it was when draw was called.
C9_FailureWritesNothing ==
    \A p \in Procs :
        (ReturnedFalse(p) /\ event[p].found) =>
            /\ writes[p] = << >>
            /\ DOMAIN people = DOMAIN before[p]
            /\ \A q \in DOMAIN people : people[q].matched = before[p][q].matched

C9_Witness ==
    \E p \in Procs :
        /\ ReturnedFalse(p) /\ N(p) >= 3 /\ attempts[p] = N(p)
        /\ \E q \in RosterIds(p) : people[q].matched # EmptyMatched

\* C10: when the event does not exist, or the roster cannot be fetched, draw
\* returns false (it does not raise) and has written nothing.
C10_MissingEventOrRoster ==
    \A p \in Procs :
        ( /\ pc[p] \in {"done", "raised"}
          /\ \/ (~event[p].found /\ result[p] # "StoreError")
             \/ (event[p].found /\ result[p] = "StoreError") )
        => (result[p] = "false" /\ writes[p] = << >> /\ people = before[p])

\* C11: when a write of a recipient token fails while a matching is being
\* persisted, draw ends returning false and the store holds none of that
\* matching's pairings (every matched field is what it was at the call).
C11_WriteFailurePropagated ==
    \A p \in Procs :
        (pc[p] = "done" /\ \E k \in 1..Len(writes[p]) : ~writes[p][k].ok) =>
            /\ result[p] = "false"
            /\ \A q \in DOMAIN people : people[q].matched = before[p][q].matched

\* C12: a draw that returns true issued exactly one write per pairing, N in
\* all and one per roster id, each setting matched to encrypt(match) on the
\* participant id within the drawn event; no write touches any other row,
\* and until all N are issued draw has not returned true.
C12_OneWritePerPairing ==
    \A p \in Procs :
        /\ pc[p] = "write" =>
              /\ Len(sortedList[p]) = N(p)
              /\ Len(writes[p]) = wi[p] - 1
              /\ result[p] = "none"
        /\ ReturnedTrue(p) =>
              /\ Len(writes[p]) = N(p)
              /\ PersistedIsSortedList(p)
              /\ {writes[p][k].id : k \in 1..Len(writes[p])} = RosterIds(p)
              /\ \A j, k \in 1..Len(writes[p]) :
                    writes[p][j].id = writes[p][k].id => j = k
              /\ \A q \in DOMAIN people :
                    (q \notin RosterIds(p) \/ people[q].eventId # eid[p]) =>
                        people[q] = before[p][q]

C12_Witness ==
    \E p \in Procs :
        /\ ReturnedTrue(p) /\ N(p) >= 3
        /\ \A k \in 1..Len(writes[p]) : writes[p][k].ok

\* C19: draw returns false (with its roster read) only when its last attempt
\* was marked failed: an attempt that completes a matching, the N-th
\* included, makes draw return true.
C19_FalseOnlyIfAllAttemptsFailed ==
    \A p \in Procs :
        (ReturnedFalse(p) /\ event[p].found) => keepTrying[p]

\* C20: when draw is at the random pick for a participant, the candidate
\* list holds an id other than the participant's own.
C20_ResampleCanExit ==
    \A p \in Procs :
        pc[p] = "picked" =>
            \E k \in 1..Len(sortableFiltered[p]) :
                sortableFiltered[p][k] # peopleList[p][idx[p]].id

(* ------------------------------ the codec alone ------------------------ *)

\* encrypt applied to the input id
Encode ==
    /\ codec.stage = "input"
    /\ codec' = [codec EXCEPT !.stage = "encoded", !.token = encrypt(codec.x)]
    /\ UNCHANGED << events, people, pc, local, adminVars >>

\* decrypt applied to the token
Decode ==
    /\ codec.stage = "encoded"
    /\ codec' = [codec EXCEPT !.stage = "decoded", !.out = decrypt(codec.token)]
    /\ UNCHANGED << events, people, pc, local, adminVars >>

CodecInit ==
    /\ events = [e \in {2} |-> [grouped |-> FALSE, status |-> FALSE]]
    /\ people = Rows(0, << >>, FALSE)
    /\ groups = GroupRows(DOMAIN events)
    /\ AdminIdle(2, OtherGroup, OtherId)
    /\ CallersIdle
    /\ \E x \in 1..MaxId : codec = [CodecIdle EXCEPT !.stage = "input", !.x = x]

CodecNext == Encode \/ Decode

CodecSpec == CodecInit /\ [][CodecNext]_vars

\* C13: after a draw that returned true, every participant of the roster has
\* a non-empty matched token that decodes to the id of another participant
\* of the same roster.
C13_EveryoneHasRecipient ==
    \A p \in Procs :
        ReturnedTrue(p) =>
            \A q \in RosterIds(p) :
                /\ people[q].matched # EmptyMatched
                /\ decrypt(people[q].matched) \in RosterIds(p) \ {q}

MaxEventRows == 2

MaxGroupRows == 1

MaxPersonRows == 1

\* a table with one more row
Insert(tbl, id, row) ==
    [q \in DOMAIN tbl \cup {id} |-> IF q = id THEN row ELSE tbl[q]]

\* a table without a row
Delete(tbl, id) == [q \in DOMAIN tbl \ {id} |-> tbl[q]]

\* ON DELETE RESTRICT: rows that reference an event, a group
EventReferenced(e) ==
    \/ \E g \in DOMAIN groups : groups[g].eventId = e
    \/ \E q \in DOMAIN people : people[q].eventId = e

GroupReferenced(g) == \E q \in DOMAIN people : people[q].groupId = g

\* events.getEvent: findFirst({ where: { id } })
getEvent(tbl, id) == id \in DOMAIN tbl

\* groups.getGroup: findFirst({ where: { id, eventId } })
getGroupAnyEvent(tbl, id, e) == id \in DOMAIN tbl

getGroup(tbl, id, e) == id \in DOMAIN tbl /\ tbl[id].eventId = e

\* events controller create -> createEvent({ title, description, grouped });
\* status takes the column default
createEvent ==
    /\ auto.event <= MaxEventRows
    /\ \E grouped \in BOOLEAN :
          events' = Insert(events, auto.event, [grouped |-> grouped, status |-> FALSE])
    /\ auto' = [auto EXCEPT !.event = auto.event + 1]
    /\ UNCHANGED << groups, people, cp, lastUpdate, pc, local, codec >>

\* an optional boolean field of updateEventSchema: absent, true or false
Patches == {"keep", "true", "false"}

Patched(old, field) == IF field = "keep" THEN old ELSE field = "true"

\* events controller update (people.ts lines 277-309) -> updateEvent; both
\* branches on updatedEvent.status are empty
EventsUpdate ==
    \E id \in 0..(auto.event - 1), status \in Patches, grouped \in Patches :
        /\ IF id \in DOMAIN events
           THEN /\ events' = [events EXCEPT
                                ![id].status = Patched(events[id].status, status),
                                ![id].grouped = Patched(events[id].grouped, grouped)]
                /\ lastUpdate' = [id |-> id, ok |-> TRUE,
                                  status |-> Patched(events[id].status, status)]
           ELSE UNCHANGED << events, lastUpdate >>
        /\ UNCHANGED << groups, people, auto, cp, pc, local, codec >>

\* events controller remove -> deleteEvent; the foreign keys restrict it
deleteEvent ==
    \E id \in DOMAIN events :
        /\ ~EventReferenced(id)
        /\ events' = Delete(events, id)
        /\ UNCHANGED << groups, people, auto, cp, lastUpdate, pc, local, codec >>

\* groups controller create -> createGroup
createGroup ==
    /\ auto.group <= MaxGroupRows
    /\ \E e \in 0..(auto.event - 1) :
          /\ e # 0
          /\ getEvent(events, e)
          /\ groups' = Insert(groups, auto.group, [eventId |-> e])
    /\ auto' = [auto EXCEPT !.group = auto.group + 1]
    /\ UNCHANGED << events, people, cp, lastUpdate, pc, local, codec >>

\* groups controller update -> updateGroup({ eventId, id }, { name })
updateGroup ==
    \E id \in DOMAIN groups, e \in 0..(auto.event - 1) :
        /\ groups[id].eventId = e
        /\ groups' = [groups EXCEPT ![id] = [eventId |-> groups[id].eventId]]
        /\ UNCHANGED << events, people, auto, cp, lastUpdate, pc, local, codec >>

\* groups controller remove -> deleteGroup(id); the foreign key restricts it
deleteGroup ==
    \E id \in DOMAIN groups :
        /\ ~GroupReferenced(id)
        /\ groups' = Delete(groups, id)
        /\ UNCHANGED << events, people, auto, cp, lastUpdate, pc, local, codec >>

\* people controller create -> createPerson, lines 19-22: the ids must be
\* given (not 0, not NaN) and the event must exist
CreatePersonEvent ==
    /\ cp.stage = "idle"
    /\ \E e \in 0..(auto.event - 1), g \in 0..(auto.group - 1) :
          /\ e # 0 /\ g # 0
          /\ getEvent(events, e)
          /\ cp' = [stage |-> "event", eventId |-> e, groupId |-> g]
    /\ UNCHANGED << events, groups, people, auto, lastUpdate, pc, local, codec >>

\* createPerson, lines 24-29: the group must exist within the event
CreatePersonGroup ==
    /\ cp.stage = "event"
    /\ IF getGroup(groups, cp.groupId, cp.eventId)
       THEN cp' = [cp EXCEPT !.stage = "group"]
       ELSE cp' = NoCreate
    /\ UNCHANGED << events, groups, people, auto, lastUpdate, pc, local, codec >>

\* createPerson, line 31: the insert; a broken foreign key throws, caught as false
CreatePersonInsert ==
    /\ cp.stage = "group"
    /\ IF cp.eventId \in DOMAIN events /\ cp.groupId \in DOMAIN groups
       THEN /\ people' = Insert(people, auto.person,
                   [eventId |-> cp.eventId, groupId |-> cp.groupId,
                    matched |-> EmptyMatched])
            /\ auto' = [auto EXCEPT !.person = auto.person + 1]
       ELSE UNCHANGED << people, auto >>
    /\ cp' = NoCreate
    /\ UNCHANGED << events, groups, lastUpdate, pc, local, codec >>

\* people controller update -> updatePeople({ id, eventId, groupId }, { name, cpf })
PeopleUpdate ==
    \E id \in DOMAIN people :
        /\ people' = [people EXCEPT ![id].matched = people[id].matched]
        /\ UNCHANGED << events, groups, auto, cp, lastUpdate, pc, local, codec >>

\* people controller remove -> deletePeople({ id, eventId, groupId })
deletePeople ==
    \E id \in DOMAIN people :
        /\ people' = Delete(people, id)
        /\ UNCHANGED << events, groups, auto, cp, lastUpdate, pc, local, codec >>

\* the empty database
AdminInit ==
    /\ events = [e \in {} |-> [grouped |-> FALSE, status |-> FALSE]]
    /\ groups = [g \in {} |-> [eventId |-> 0]]
    /\ people = [q \in {} |-> [eventId |-> 0, groupId |-> 0, matched |-> EmptyMatched]]
    /\ AdminIdle(0, 0, 0)
    /\ CallersIdle
    /\ codec = CodecIdle

AdminNext ==
    \/ createEvent
    \/ EventsUpdate
    \/ deleteEvent
    \/ createGroup
    \/ updateGroup
    \/ deleteGroup
    \/ auto.person <= MaxPersonRows /\ CreatePersonEvent
    \/ CreatePersonGroup
    \/ CreatePersonInsert
    \/ PeopleUpdate
    \/ deletePeople

AdminSpec == AdminInit /\ [][AdminNext]_vars

\* C17: once the events controller has answered an update with the updated
\* event, a status of true means a draw was started for that event and a
\* status of false means every participant of the event has an empty token.
C17_UpdateDrawsOrClears ==
    lastUpdate.ok =>
        IF lastUpdate.status
        THEN \E p \in Procs : pc[p] # "idle" /\ eid[p] = lastUpdate.id
        ELSE \A q \in DOMAIN people :
                people[q].eventId = lastUpdate.id => people[q].matched = EmptyMatched

\* every participant's group is a group of the participant's event
GroupsInOwnEvent ==
    \A q \in DOMAIN people :
        /\ people[q].groupId \in DOMAIN groups
        /\ groups[people[q].groupId].eventId = people[q].eventId

\* a step that adds a participant adds one whose ids are given, whose event
\* exists and whose group is a group of that event
CreatesOnlyValid ==
    \A q \in DOMAIN people' \ DOMAIN people :
        /\ people'[q].eventId # 0 /\ people'[q].groupId # 0
        /\ people'[q].eventId \in DOMAIN events
        /\ people'[q].groupId \in DOMAIN groups
        /\ groups[people'[q].groupId].eventId = people'[q].eventId

\* C18: createPerson inserts a participant only with both ids given, the
\* event existing and the group existing within that event; so after any
\* sequence of admin operations every participant's group belongs to the
\* participant's own event.
C18_GroupBelongsToEvent ==
    [][CreatesOnlyValid /\ GroupsInOwnEvent']_vars

C18_Witness ==
    /\ Cardinality(DOMAIN events) >= 2
    /\ \E q \in DOMAIN people : groups[people[q].groupId].eventId = people[q].eventId

(* ------------------------------ concurrent draws ----------------------- *)

\* the roster of the event that two callers draw at the same time
ConcRoster == {1, 2, 3, 4}

\* its two groups: participants 1 and 2, participants 3 and 4
ConcGroup(q) == IF q <= 2 THEN 1 ELSE 2

\* one grouped event whose participants have no token yet
ConcInit ==
    /\ events = [e \in {1} |-> [grouped |-> TRUE, status |-> FALSE]]
    /\ groups = [g \in {1, 2} |-> [eventId |-> 1]]
    /\ people = [q \in ConcRoster |->
                    [eventId |-> 1, groupId |-> ConcGroup(q), matched |-> EmptyMatched]]
    /\ AdminIdle(1, 2, Cardinality(ConcRoster))
    /\ CallersIdle
    /\ codec = CodecIdle

\* lines 137-188 contain no await: the loop runs to its end before any other
\* callback of the process gets a turn
InSync(p) == pc[p] \in {"while", "for", "picked"}

ConcNext ==
    \E p \in Procs :
        /\ \A q \in Procs \ {p} : ~InSync(q)
        /\ Step(p)
        /\ UNCHANGED << codec, adminVars >>

ConcSpec == ConcInit /\ [][ConcNext]_vars

\* the ids whose token names x as the recipient
GiversOf(x) == {q \in DOMAIN people : people[q].matched = encrypt(x)}

\* a draw returned true and each of its writes was applied
DrewAndWrote(p) ==
    /\ ReturnedTrue(p)
    /\ eid[p] = 1
    /\ \A k \in 1..Len(writes[p]) : writes[p][k].ok

\* C15: two draws of the same event running at once are not kept apart. Every
\* stored token is one that a write of one of the draws put there (last
\* write wins, per participant), and nothing more is guaranteed: the
\* witness is a state after both draws returned true in which the stored
\* recipients mix the two matchings and one participant is the recipient of
\* two others.
C15_LastWriteWinsPerParticipant ==
    \A q \in DOMAIN people :
        \/ /\ people[q].matched = EmptyMatched
           /\ \A p \in Procs : \A k \in 1..Len(writes[p]) :
                 ~(writes[p][k].ok /\ writes[p][k].id = q)
        \/ \E p \in Procs : \E k \in 1..Len(writes[p]) :
              /\ writes[p][k].ok
              /\ writes[p][k].id = q
              /\ writes[p][k].matched = people[q].matched

C15_Witness ==
    /\ \A p \in Procs : DrewAndWrote(p) /\ RosterIds(p) = ConcRoster
    /\ \E x \in ConcRoster : Cardinality(GiversOf(x)) >= 2
    /\ \A p \in Procs : \E q \in ConcRoster : \E k \in 1..Len(sortedList[p]) :
          /\ sortedList[p][k].id = q
          /\ people[q].matched = encrypt(sortedList[p][k].match)
          /\ \A r \in Procs \ {p} : \A j \in 1..Len(sortedList[r]) :
                sortedList[r][j].id = q => sortedList[r][j].match # sortedList[p][k].match

(* ------------------------------ snapshot ------------------------------- *)

\* largest roster of the snapshot specification
MaxSnap == 2

\* one ungrouped event with a roster of 2..MaxSnap, nothing drawn yet
SnapInit ==
    \E n \in 2..MaxSnap :
        /\ events = [e \in {1} |-> [grouped |-> FALSE, status |-> FALSE]]
        /\ groups = [g \in {1} |-> [eventId |-> 1]]
        /\ people = [q \in 1..n |->
                        [eventId |-> 1, groupId |-> 1, matched |-> EmptyMatched]]
        /\ AdminIdle(1, 1, n)
        /\ CallersIdle
        /\ codec = CodecIdle

\* one draw, while people handlers of other requests change the store; the
\* store is a separate process, so their effects land at any moment
SnapNext ==
    \/ \E p \in SeqProcs : Step(p) /\ UNCHANGED << codec, adminVars >>
    \/ auto.person <= MaxSnap + 1 /\ CreatePersonEvent
    \/ CreatePersonGroup
    \/ CreatePersonInsert
    \/ PeopleUpdate
    \/ deletePeople

SnapSpec == SnapInit /\ [][SnapNext]_vars

\* ids of the event's participants as the store has them now
LiveIds(e) == {q \in DOMAIN people : people[q].eventId = e}

\* C16: whatever happens to the store after the roster was fetched, the
\* pairs the draw computes are pairs of the fetched roster, the roster it
\* holds does not change, and each write it issues is the write of the
\* pair it computed.
C16_ComputedFromSnapshot ==
    \A p \in SeqProcs :
        /\ FromIds(p) \subseteq RosterIds(p)
        /\ ToIds(p) \subseteq RosterIds(p)
        /\ {sortable[p][k] : k \in 1..Len(sortable[p])} \subseteq RosterIds(p)
        /\ maxAttempts[p] = N(p)
        /\ \A k \in 1..Len(writes[p]) :
              /\ k <= Len(sortedList[p])
              /\ writes[p][k].id = sortedList[p][k].id
              /\ writes[p][k].matched = encrypt(sortedList[p][k].match)

C16_Witness ==
    \E p \in SeqProcs :
        /\ ReturnedTrue(p)
        /\ N(p) >= 2
        /\ Len(writes[p]) = N(p)
        /\ LiveIds(eid[p]) \ RosterIds(p) # {}
        /\ RosterIds(p) \ LiveIds(eid[p]) # {}

(* ------------------------------ the attempts of a draw ----------------- *)

\* C21: in an attempt that has been marked failed (keepTrying set by the
\* no-candidate branch) no further participant gets a pick: draw is never at
\* the random pick while the mark is set.
C21_FailureAbortsAttempt ==
    \A p \in Procs : keepTrying[p] => pc[p] # "picked"

\* the ids of the roster in roster order: the pool an attempt starts with
FullPool(p) == [k \in 1..N(p) |-> peopleList[p][k].id]

\* C22: the attempt counter never exceeds the roster size N; it only moves
\* up by one, and the step that moves it starts an attempt with an empty
\* pairing list and the pool of all roster ids, and is taken only while the
\* failure mark is set (no attempt follows one that ended without the mark).
C22_AttemptBudget ==
    [][\A p \in Procs :
          /\ attempts'[p] <= Len(peopleList'[p])
          /\ attempts'[p] # attempts[p] =>
                /\ attempts'[p] = attempts[p] + 1
                /\ keepTrying[p]
                /\ sortedList'[p] = << >>
                /\ sortable'[p] = FullPool(p)]_vars

C22_Witness ==
    \E p \in Procs :
        /\ pc[p] = "for" /\ idx[p] = 1
        /\ N(p) >= 3
        /\ attempts[p] = N(p)

\* C23: whether or not the event is grouped, a draw that returns true has
\* computed and handed to the store a list of N pairings in which every
\* roster id gives once, every roster id is the recipient of exactly one
\* participant, and nobody is paired with itself.
C23_BijectionAnyMode ==
    \A p \in Procs :
        ReturnedTrue(p) =>
            /\ Len(sortedList[p]) = N(p)
            /\ PersistedIsSortedList(p)
            /\ FromIds(p) = RosterIds(p)
            /\ \A x \in RosterIds(p) :
                  Cardinality({k \in 1..Len(sortedList[p]) :
                                   sortedList[p][k].match = x}) = 1
            /\ \A k \in 1..Len(sortedList[p]) :
                  /\ sortedList[p][k].match \in RosterIds(p)
                  /\ sortedList[p][k].match # sortedList[p][k].id

C23_Witness ==
    \E p \in Procs :
        /\ ReturnedTrue(p) /\ event[p].grouped /\ N(p) >= 3
        /\ \E j, k \in 1..N(p) : peopleList[p][j].groupId # peopleList[p][k].groupId

\* C24: whenever draw is persisting or has persisted anything, the list it
\* writes is the list of its last attempt, that attempt carries no failure
\* mark and paired the whole roster, and each write issued is the entry of
\* that list at its position; under a failure mark nothing is ever written.
C24_PersistsUnfailedAttempt ==
    \A p \in Procs :
        /\ keepTrying[p] => (writes[p] = << >> /\ pc[p] # "write")
        /\ (pc[p] = "write" \/ writes[p] # << >>) =>
              /\ ~keepTrying[p]
              /\ attempts[p] < maxAttempts[p]
              /\ Len(sortedList[p]) = N(p)
              /\ FromIds(p) = RosterIds(p)
              /\ \A k \in 1..Len(writes[p]) :
                    /\ writes[p][k].id = sortedList[p][k].id
                    /\ writes[p][k].matched = encrypt(sortedList[p][k].match)

C24_Witness ==
    \E p \in Procs :
        /\ ReturnedTrue(p)
        /\ attempts[p] >= 2
        /\ Len(writes[p]) = N(p)

\* a fetched roster of exactly two participants of different groups, drawn
\* with group exclusion
TwoOfDifferentGroups(p) ==
    /\ pc[p] \notin {"idle", "findEvent", "findPeople"}
    /\ event[p].found /\ event[p].grouped
    /\ N(p) = 2
    /\ peopleList[p][1].groupId # peopleList[p][2].groupId

\* C25: for a roster of exactly two participants of different groups, with
\* group exclusion on, draw never gets to persisting, never raises and
\* never returns true: when it ends it has returned false with nothing
\* written and the store as it was at the call.
C25_TwoGroupsOfOneFail ==
    \A p \in Procs :
        TwoOfDifferentGroups(p) =>
            /\ pc[p] \notin {"write", "raised"}
            /\ ~Spinning(p)
            /\ writes[p] = << >>
            /\ people = before[p]
            /\ pc[p] = "done" => result[p] = "false"

C25_Witness ==
    \E p \in Procs :
        /\ TwoOfDifferentGroups(p)
        /\ ReturnedFalse(p)
        /\ attempts[p] = 2

\* C27: a draw on event E holds a roster of participants of E only, issues
\* writes only for ids of E and with eventId E, and leaves every
\* participant of another event, and the eventId and groupId of every
\* participant, as they were at the call; no row appears or disappears.
C27_OnlyOwnEvent ==
    \A p \in Procs :
        pc[p] # "idle" =>
            /\ RosterIds(p) \subseteq LiveIds(eid[p])
            /\ \A k \in 1..Len(writes[p]) :
                  /\ writes[p][k].eventId = eid[p]
                  /\ writes[p][k].id \in LiveIds(eid[p])
            /\ DOMAIN people = DOMAIN before[p]
            /\ \A q \in DOMAIN people :
                  /\ people[q].eventId = before[p][q].eventId
                  /\ people[q].groupId = before[p][q].groupId
                  /\ people[q].eventId # eid[p] => people[q] = before[p][q]

C27_Witness ==
    \E p \in Procs :
        /\ ReturnedTrue(p)
        /\ \E k \in 1..Len(writes[p]) : writes[p][k].ok
        /\ \E q \in DOMAIN people : people[q].eventId # eid[p]
        /\ people # before[p]

(* ------------------------------ draws one after another ---------------- *)

\* a call of draw has come to its end
Finished(p) == pc[p] \in {"done", "raised"}

\* the callers draw in turn: a call starts only after the one before it ended
SuccNext ==
    \E p \in Procs :
        /\ \A q \in Procs : q < p => Finished(q)
        /\ \A q \in Procs : q > p => pc[q] = "idle"
        /\ Step(p)
        /\ UNCHANGED << codec, adminVars >>

SuccSpec == ConcInit /\ [][SuccNext]_vars

\* the store holds exactly the pairings of this draw
Stored(p) ==
    /\ FromIds(p) = LiveIds(eid[p])
    /\ \A k \in 1..Len(sortedList[p]) :
          people[sortedList[p][k].id].matched = encrypt(sortedList[p][k].match)

\* what the store holds after the first p calls: the pairings of the last
\* of them that returned true, or what it held before the first
RECURSIVE Standing(_)
Standing(p) ==
    IF p = 0 THEN \A q \in DOMAIN people : people[q].matched = EmptyMatched
    ELSE IF ReturnedTrue(p) THEN Stored(p)
    ELSE Standing(p - 1)

\* every write issued so far was applied
AllWritesApplied ==
    \A p \in Procs : \A k \in 1..Len(writes[p]) : writes[p][k].ok

\* C26: between calls that do not overlap, with the roster unchanged and
\* every write applied, the stored recipients are exactly the pairings of
\* the most recent draw that returned true (every participant's token is
\* that draw's), and a draw that returned false left them as they were.
C26_LastSuccessfulDrawStands ==
    AllWritesApplied =>
        \A p \in Procs :
            (Finished(p) /\ \A q \in Procs : q > p => pc[q] = "idle")
                => Standing(p)

C26_Witness ==
    /\ AllWritesApplied
    /\ \A p \in Procs : ReturnedTrue(p)
    /\ Pairs(1) # Pairs(2)
    /\ Stored(2)

====
